---- MODULE Spec2Model ----
(***************************************************************************)
(* Model of the two hash-table generation scripts of the IC10 extension:   *)
(*                                                                         *)
(*   generate_hashes.py       english.xml      -> stationpedia.txt         *)
(*   update_device_hashes.py  Stationpedia.json -> device_hashes.rs        *)
(*                                                                         *)
(* Strings are sequences of code points (65 = "A").  A 32-bit unsigned     *)
(* value u is the pair <<u \div 65536, u % 65536>> of its 16-bit halves,   *)
(* so that every intermediate result fits a 32-bit integer of TLC; signed   *)
(* 32-bit values are plain integers.                                       *)
(***************************************************************************)
EXTENDS Integers, Sequences, FiniteSets, TLC

\* Longest source (number of records) that is explored.
MaxRecs == 2

\* Number of consecutive runs of a script over the same source.
NumRuns == 2

----------------------------------------------------------------------------
(* Python values *)

\* Python's None where it is used as a dictionary key (no code point is negative).
None == <<-1>>

\* str < str : comparison by code point, a proper prefix comes first.
RECURSIVE StrLess(_, _)
StrLess(a, b) ==
    IF b = <<>> THEN FALSE
    ELSE IF a = <<>> THEN TRUE
    ELSE IF Head(a) # Head(b) THEN Head(a) < Head(b)
    ELSE StrLess(Tail(a), Tail(b))

\* sorted(keys) for a set of str keys.
RECURSIVE SortedStrs(_)
SortedStrs(S) ==
    IF S = {} THEN <<>>
    ELSE LET m == CHOOSE x \in S : \A y \in S \ {x} : StrLess(x, y)
         IN  <<m>> \o SortedStrs(S \ {m})

\* sorted(keys) for a set of int keys.
RECURSIVE SortedInts(_)
SortedInts(S) ==
    IF S = {} THEN <<>>
    ELSE LET m == CHOOSE x \in S : \A y \in S : x <= y
         IN  <<m>> \o SortedInts(S \ {m})

\* dict[k] = v
Put(f, k, v) == [x \in (DOMAIN f) \cup {k} |-> IF x = k THEN v ELSE f[x]]

\* The empty dict.
EmptyDict == [x \in {} |-> <<>>]

\* str.startswith at offset 1.
StartsWith(s, pat) ==
    /\ Len(s) >= Len(pat)
    /\ SubSeq(s, 1, Len(pat)) = pat

\* str.replace(pat, rep) for a non-empty pat: left to right, non-overlapping.
RECURSIVE Replace(_, _, _)
Replace(s, pat, rep) ==
    IF s = <<>> THEN <<>>
    ELSE IF StartsWith(s, pat)
         THEN rep \o Replace(SubSeq(s, Len(pat) + 1, Len(s)), pat, rep)
         ELSE <<Head(s)>> \o Replace(Tail(s), pat, rep)

\* Code points str.strip() removes (tab, LF, VT, FF, CR, space among them).
Whitespace == {9, 10, 11, 12, 13, 32}

RECURSIVE LStrip(_)
LStrip(s) ==
    IF s # <<>> /\ Head(s) \in Whitespace THEN LStrip(Tail(s)) ELSE s

RECURSIVE RStrip(_)
RStrip(s) ==
    IF s # <<>> /\ s[Len(s)] \in Whitespace
    THEN RStrip(SubSeq(s, 1, Len(s) - 1)) ELSE s

\* str.strip()
Strip(s) == RStrip(LStrip(s))

----------------------------------------------------------------------------
(* Hash engine of generate_hashes.py *)

\* One code point as UTF-8 bytes.
Utf8Char(c) ==
    IF c < 128 THEN <<c>>
    ELSE IF c < 2048 THEN <<192 + (c \div 64), 128 + (c % 64)>>
    ELSE <<224 + (c \div 4096), 128 + ((c \div 64) % 64), 128 + (c % 64)>>

\* prefab_name.encode('utf-8')
RECURSIVE Utf8(_)
Utf8(s) == IF s = <<>> THEN <<>> ELSE Utf8Char(Head(s)) \o Utf8(Tail(s))

\* a ^ b on n-bit values.
RECURSIVE XorBits(_, _, _)
XorBits(a, b, n) ==
    IF n = 0 THEN 0
    ELSE (((a % 2) + (b % 2)) % 2) + 2 * XorBits(a \div 2, b \div 2, n - 1)

\* x ^ y on 32-bit values.
Xor32(x, y) == <<XorBits(x[1], y[1], 16), XorBits(x[2], y[2], 16)>>

\* x >> 1 on a 32-bit value.
Shr1(x) == <<x[1] \div 2, (x[1] % 2) * 32768 + (x[2] \div 2)>>

\* 0xEDB88320, the reflected IEEE polynomial.
Poly == <<60856, 33568>>

\* 0xFFFFFFFF
AllOnes == <<65535, 65535>>

\* 0x80000000
SignBit == <<32768, 0>>

\* n shift-and-reduce steps of the CRC register.
RECURSIVE CrcBits(_, _)
CrcBits(c, n) ==
    IF n = 0 THEN c
    ELSE CrcBits(IF c[2] % 2 = 1 THEN Xor32(Shr1(c), Poly) ELSE Shr1(c), n - 1)

RECURSIVE CrcBytes(_, _)
CrcBytes(c, bs) ==
    IF bs = <<>> THEN c
    ELSE CrcBytes(CrcBits(Xor32(c, <<0, Head(bs)>>), 8), Tail(bs))

\* zlib.crc32(bytes)
crc32(bs) == Xor32(CrcBytes(AllOnes, bs), AllOnes)

\* unsigned_hash = zlib.crc32(prefab_name.encode('utf-8'))
unsigned_hash(prefab_name) == crc32(Utf8(prefab_name))

\* A variant without the exclusive or: unsigned_hash - 0x80000000.
signed_hash_NoXor(u) == (u[1] - SignBit[1]) * 65536 + (u[2] - SignBit[2])

\* signed_hash = (unsigned_hash ^ 0x80000000) - 0x80000000
signed_hash(u) ==
    LET x == Xor32(u, SignBit)
    IN  (x[1] - SignBit[1]) * 65536 + (x[2] - SignBit[2])

\* The four hexadecimal digits of a 16-bit value.
Nibbles(h) == <<h \div 4096, (h \div 256) % 16, (h \div 16) % 16, h % 16>>

RECURSIVE DropZeros(_)
DropZeros(ds) ==
    IF Len(ds) > 1 /\ Head(ds) = 0 THEN DropZeros(Tail(ds)) ELSE ds

\* hex_hash = hex(unsigned_hash): the digits after "0x", no padding.
hex_hash(u) == DropZeros(Nibbles(u[1]) \o Nibbles(u[2]))

----------------------------------------------------------------------------
(* The sources *)

\* A parsed element or JSON object is a function from the names of the
\* children it has to their values; an absent child is outside its DOMAIN.

\* t.findtext('./tag', default) and page.get(key, default)
FindText(t, tag, default) == IF tag \in DOMAIN t THEN t[tag] ELSE default

\* ./Things/RecordThing elements of english.xml that are explored:
\* B -> "P"; A without Value; e-acute -> "<N:EN:P>"; no Key; empty Key;
\* B again with an empty Value.
Things ==
    { [Key |-> <<66>>, Value |-> <<80>>],
      [Key |-> <<65>>],
      [Key |-> <<233>>, Value |-> <<60, 78, 58, 69, 78, 58, 80, 62>>],
      [Value |-> <<80>>],
      [Key |-> <<>>, Value |-> <<80>>],
      [Key |-> <<66>>, Value |-> <<>>] }

\* data['pages'] objects of Stationpedia.json that are explored:
\* B/7/"<N:EN:P>"; A/7 without Title; A/-5/" "; no PrefabName; empty
\* PrefabName; C without PrefabHash; C/0/Q"\ .
Pages ==
    { [PrefabName |-> <<66>>, PrefabHash |-> 7,
       Title |-> <<60, 78, 58, 69, 78, 58, 80, 62>>],
      [PrefabName |-> <<65>>, PrefabHash |-> 7],
      [PrefabName |-> <<65>>, PrefabHash |-> -5, Title |-> <<32>>],
      [PrefabHash |-> 3, Title |-> <<81>>],
      [PrefabName |-> <<>>, PrefabHash |-> 3, Title |-> <<81>>],
      [PrefabName |-> <<67>>, Title |-> <<81>>],
      [PrefabName |-> <<67>>, PrefabHash |-> 0, Title |-> <<81, 34, 92>>] }

\* Sequences over S of length at most n.
BoundedSeqs(S, n) == UNION { [1..k -> S] : k \in 0..n }

----------------------------------------------------------------------------
(* generate_hashes.py *)

\* for t in x.findall('./Things/RecordThing'):
\*     d[t.findtext('./Key')] = t.findtext('./Value', '')
RECURSIVE Populate(_, _)
Populate(dd, things) ==
    IF things = <<>> THEN dd
    ELSE Populate(Put(dd, FindText(Head(things), "Key", None),
                          FindText(Head(things), "Value", <<>>)),
                  Tail(things))

\* sorted(d.keys()) raises TypeError when it has to compare None with a str.
SortRaises(keys) == None \in keys /\ Cardinality(keys) > 1

\* f'"{prefab_name}" {signed_hash} {hex_hash} "{display_name}"\n'
TextLine(prefab_name, dd) ==
    [identifier |-> prefab_name,
     signed     |-> signed_hash(unsigned_hash(prefab_name)),
     hex        |-> hex_hash(unsigned_hash(prefab_name)),
     display    |-> dd[prefab_name]]

----------------------------------------------------------------------------
(* update_device_hashes.py *)

\* if prefab_name and prefab_hash is not None:
Accepted(page) ==
    /\ "PrefabName" \in DOMAIN page
    /\ page.PrefabName # <<>>
    /\ "PrefabHash" \in DOMAIN page

\* display_name = title.replace('<N:EN:', '').replace('>', '').strip()
\* if not display_name: display_name = prefab_name
DisplayName(page) ==
    LET title == FindText(page, "Title", <<>>)
        clean == Strip(Replace(Replace(title, <<60, 78, 58, 69, 78, 58>>, <<>>),
                               <<62>>, <<>>))
    IN  IF clean = <<>> THEN page.PrefabName ELSE clean

\* A variant that keeps the first display name stored for a hash
\* (hash_to_name.setdefault).
RECURSIVE Extract_FirstWins(_, _, _)
Extract_FirstWins(dm, hn, pages) ==
    IF pages = <<>> THEN <<dm, hn>>
    ELSE LET page == Head(pages)
         IN  IF Accepted(page)
             THEN Extract_FirstWins(
                      Put(dm, page.PrefabName,
                              <<page.PrefabHash, DisplayName(page)>>),
                      IF page.PrefabHash \in DOMAIN hn THEN hn
                      ELSE Put(hn, page.PrefabHash, DisplayName(page)),
                      Tail(pages))
             ELSE Extract_FirstWins(dm, hn, Tail(pages))

\* A variant that skips a page whose hash is already taken.
RECURSIVE Extract_SkipsTakenHash(_, _, _)
Extract_SkipsTakenHash(dm, hn, pages) ==
    IF pages = <<>> THEN <<dm, hn>>
    ELSE LET page == Head(pages)
         IN  IF Accepted(page) /\ page.PrefabHash \notin DOMAIN hn
             THEN Extract_SkipsTakenHash(
                      Put(dm, page.PrefabName,
                              <<page.PrefabHash, DisplayName(page)>>),
                      Put(hn, page.PrefabHash, DisplayName(page)),
                      Tail(pages))
             ELSE Extract_SkipsTakenHash(dm, hn, Tail(pages))

\* The extraction loop: <<device_map, hash_to_name>> after the pages.
RECURSIVE Extract(_, _, _)
Extract(dm, hn, pages) ==
    IF pages = <<>> THEN <<dm, hn>>
    ELSE LET page == Head(pages)
         IN  IF Accepted(page)
             THEN Extract(Put(dm, page.PrefabName,
                                  <<page.PrefabHash, DisplayName(page)>>),
                          Put(hn, page.PrefabHash, DisplayName(page)),
                          Tail(pages))
             ELSE Extract(dm, hn, Tail(pages))

\* display_name.replace('\\', '\\\\').replace('"', '\\"')
Escape(display_name) ==
    Replace(Replace(display_name, <<92>>, <<92, 92>>), <<34>>, <<92, 34>>)

\* A line of the generated Rust source.
RustLine(kind, name, hash, text) ==
    [kind |-> kind, name |-> name, hash |-> hash, text |-> text]

\* The literal parts of rust_code.
Header == <<RustLine("DEVICE_NAME_TO_HASH", <<>>, 0, <<>>)>>
Middle == <<RustLine("HASH_TO_DISPLAY_NAME", <<>>, 0, <<>>)>>
Footer == <<RustLine("end", <<>>, 0, <<>>)>>

\* for prefab_name in sorted(device_map.keys()):
\*     rust_code += f'    "{prefab_name}" => {hash_value},\n'
NameLines(dm) ==
    LET ks == SortedStrs(DOMAIN dm)
    IN  [j \in 1..Len(ks) |-> RustLine("name", ks[j], dm[ks[j]][1], <<>>)]

\* A variant that sorts the hashes in descending order.
HashLines_Descending(hn) ==
    LET hs == SortedInts(DOMAIN hn)
        n  == Len(hs)
    IN  [j \in 1..n |->
            RustLine("hash", <<>>, hs[n + 1 - j], Escape(hn[hs[n + 1 - j]]))]

\* for hash_value in sorted(hash_to_name.keys()):
\*     rust_code += f'    {hash_value} => "{display_name}",\n'
HashLines(hn) ==
    LET hs == SortedInts(DOMAIN hn)
    IN  [j \in 1..Len(hs) |-> RustLine("hash", <<>>, hs[j], Escape(hn[hs[j]]))]

----------------------------------------------------------------------------
(* State *)

VARIABLES
    script,            \* "text": generate_hashes.py, "code": update_device_hashes.py
    srcStatus,         \* the source artifact: "ok", "absent" or "unparsable"
    source,            \* its records, in file order
    pc,                \* position of the running script
    run,               \* number of the current run
    d,                 \* generate_hashes.py: d
    keys,              \* generate_hashes.py: sorted(d.keys())
    i,                 \* generate_hashes.py: position of the for loop in keys
    device_map,        \* update_device_hashes.py: device_map
    hash_to_name,      \* update_device_hashes.py: hash_to_name
    rust_code,         \* update_device_hashes.py: rust_code
    stationpedia_txt,  \* content of ./output/stationpedia.txt
    device_hashes_rs,  \* content of device_hashes.rs
    old_txt,           \* stationpedia.txt when the current run started
    old_rs             \* device_hashes.rs when the current run started

vars == <<script, srcStatus, source, pc, run, d, keys, i, device_map,
          hash_to_name, rust_code, stationpedia_txt, device_hashes_rs,
          old_txt, old_rs>>

memory == <<d, keys, i, device_map, hash_to_name, rust_code>>
input  == <<script, srcStatus, source, run, old_txt, old_rs>>

\* What a destination may hold before the first run: nothing, or the
\* output of an earlier generation.
PriorTxt == { <<>>, <<[identifier |-> <<79>>, signed |-> 1,
                      hex |-> <<1>>, display |-> <<79>>]>> }
PriorRs  == { <<>>, Header \o <<RustLine("name", <<79>>, 1, <<>>)>> \o Middle
                    \o <<RustLine("hash", <<>>, 1, <<79>>)>> \o Footer }

Init ==
    /\ script \in {"text", "code"}
    /\ srcStatus \in {"ok", "absent", "unparsable"}
    /\ source \in IF srcStatus # "ok" THEN {<<>>}
                  ELSE BoundedSeqs(IF script = "text" THEN Things ELSE Pages,
                                   MaxRecs)
    /\ pc = "start"
    /\ run = 1
    /\ d = EmptyDict
    /\ keys = <<>>
    /\ i = 1
    /\ device_map = EmptyDict
    /\ hash_to_name = EmptyDict
    /\ rust_code = <<>>
    /\ stationpedia_txt \in PriorTxt
    /\ device_hashes_rs \in PriorRs
    /\ old_txt = stationpedia_txt
    /\ old_rs = device_hashes_rs

----------------------------------------------------------------------------
(* generate_hashes.py, with the copy prompt answered by its default (No) *)

\* A variant that opens the output before the source is parsed.
GLoad_OpensFirst ==
    /\ script = "text" /\ pc = "start"
    /\ stationpedia_txt' = <<>>
    /\ pc' = CASE srcStatus = "absent"     -> "exited"
               [] srcStatus = "unparsable" -> "crashed"
               [] OTHER                    -> "parsed"
    /\ UNCHANGED <<input, memory, device_hashes_rs>>

\* tree = ET.parse(input_filename): FileNotFoundError is caught and the
\* script exits; a ParseError is not caught.
GLoad ==
    /\ script = "text" /\ pc = "start"
    /\ pc' = CASE srcStatus = "absent"     -> "exited"
               [] srcStatus = "unparsable" -> "crashed"
               [] OTHER                    -> "parsed"
    /\ UNCHANGED <<input, memory, stationpedia_txt, device_hashes_rs>>

\* The loop over ./Things/RecordThing.
GPopulate ==
    /\ script = "text" /\ pc = "parsed"
    /\ d' = Populate(d, source)
    /\ pc' = "populated"
    /\ UNCHANGED <<input, keys, i, device_map, hash_to_name, rust_code,
                   stationpedia_txt, device_hashes_rs>>

\* A variant that opens the output for appending.
GOpen_Appends ==
    /\ script = "text" /\ pc = "populated"
    /\ pc' = "opened"
    /\ UNCHANGED <<input, memory, stationpedia_txt, device_hashes_rs>>

\* open(output_filename, 'w'): the file is truncated.
GOpen ==
    /\ script = "text" /\ pc = "populated"
    /\ stationpedia_txt' = <<>>
    /\ pc' = "opened"
    /\ UNCHANGED <<input, memory, device_hashes_rs>>

\* sorted(d.keys()), evaluated once when the for loop starts.
GSort ==
    /\ script = "text" /\ pc = "opened"
    /\ IF SortRaises(DOMAIN d)
       THEN pc' = "crashed" /\ UNCHANGED <<keys, i>>
       ELSE pc' = "writing" /\ keys' = SortedStrs(DOMAIN d) /\ i' = 1
    /\ UNCHANGED <<input, d, device_map, hash_to_name, rust_code,
                   stationpedia_txt, device_hashes_rs>>

\* One iteration of the for loop; None has no encode().
GWriteLine ==
    /\ script = "text" /\ pc = "writing" /\ i <= Len(keys)
    /\ IF keys[i] = None
       THEN pc' = "crashed" /\ UNCHANGED <<i, stationpedia_txt>>
       ELSE /\ stationpedia_txt' = Append(stationpedia_txt, TextLine(keys[i], d))
            /\ i' = i + 1
            /\ pc' = pc
    /\ UNCHANGED <<input, d, keys, device_map, hash_to_name, rust_code,
                   device_hashes_rs>>

\* The loop and the with block end.
GClose ==
    /\ script = "text" /\ pc = "writing" /\ i > Len(keys)
    /\ pc' = "done"
    /\ UNCHANGED <<input, memory, stationpedia_txt, device_hashes_rs>>

----------------------------------------------------------------------------
(* update_device_hashes.py *)

\* open(stationpedia_path) and json.load(f): neither error is caught.
ULoad ==
    /\ script = "code" /\ pc = "start"
    /\ pc' = IF srcStatus = "ok" THEN "parsed" ELSE "crashed"
    /\ UNCHANGED <<input, memory, stationpedia_txt, device_hashes_rs>>

\* The loop over data['pages'].
UExtract ==
    /\ script = "code" /\ pc = "parsed"
    /\ device_map' = Extract(device_map, hash_to_name, source)[1]
    /\ hash_to_name' = Extract(device_map, hash_to_name, source)[2]
    /\ pc' = "extracted"
    /\ UNCHANGED <<input, d, keys, i, rust_code, stationpedia_txt,
                   device_hashes_rs>>

\* rust_code up to the end of DEVICE_NAME_TO_HASH.
UBuildNames ==
    /\ script = "code" /\ pc = "extracted"
    /\ rust_code' = Header \o NameLines(device_map)
    /\ pc' = "names"
    /\ UNCHANGED <<input, d, keys, i, device_map, hash_to_name,
                   stationpedia_txt, device_hashes_rs>>

\* rust_code up to its end.
UBuildHashes ==
    /\ script = "code" /\ pc = "names"
    /\ rust_code' = rust_code \o Middle \o HashLines(hash_to_name) \o Footer
    /\ pc' = "built"
    /\ UNCHANGED <<input, d, keys, i, device_map, hash_to_name,
                   stationpedia_txt, device_hashes_rs>>

\* open(output_path, 'w'): the file is truncated.
UOpen ==
    /\ script = "code" /\ pc = "built"
    /\ device_hashes_rs' = <<>>
    /\ pc' = "opened"
    /\ UNCHANGED <<input, memory, stationpedia_txt>>

\* f.write(rust_code)
UWrite ==
    /\ script = "code" /\ pc = "opened"
    /\ device_hashes_rs' = device_hashes_rs \o rust_code
    /\ pc' = "done"
    /\ UNCHANGED <<input, memory, stationpedia_txt>>

----------------------------------------------------------------------------
(* Running the script again on the unchanged source *)

Ended == pc \in {"done", "exited", "crashed"}

Rerun ==
    /\ Ended /\ run < NumRuns
    /\ run' = run + 1
    /\ pc' = "start"
    /\ d' = EmptyDict /\ keys' = <<>> /\ i' = 1
    /\ device_map' = EmptyDict /\ hash_to_name' = EmptyDict
    /\ rust_code' = <<>>
    /\ old_txt' = stationpedia_txt
    /\ old_rs' = device_hashes_rs
    /\ UNCHANGED <<script, srcStatus, source, stationpedia_txt,
                   device_hashes_rs>>

Next ==
    \/ GLoad \/ GPopulate \/ GOpen \/ GSort \/ GWriteLine \/ GClose
    \/ ULoad \/ UExtract \/ UBuildNames \/ UBuildHashes \/ UOpen \/ UWrite
    \/ Rerun

Spec == Init /\ [][Next]_vars

----------------------------------------------------------------------------
(* Properties *)

\* The entries of the two maps in device_hashes.rs.
NAME_TO_HASH == SelectSeq(device_hashes_rs, LAMBDA l : l.kind = "name")
HASH_TO_DISPLAY_NAME == SelectSeq(device_hashes_rs, LAMBDA l : l.kind = "hash")

TextDone == script = "text" /\ pc = "done"
CodeDone == script = "code" /\ pc = "done"
Failed   == pc \in {"exited", "crashed"}

\* The 32-bit unsigned value of a signed 32-bit integer, as halves.
ToU32(h) == <<(h \div 65536) % 65536, h % 65536>>
U32Less(x, y) == x[1] < y[1] \/ (x[1] = y[1] /\ x[2] < y[2])

\* Indices of the accepted pages of the source that carry hash h.
PagesWith(h) ==
    { j \in 1..Len(source) : Accepted(source[j]) /\ source[j].PrefabHash = h }

\* Number of entries of seq that satisfy Test.
Count(seq, Test(_)) == Cardinality({ j \in 1..Len(seq) : Test(seq[j]) })

\* u - 2^32 when u >= 2^31, and u otherwise.
Reinterpret(u) ==
    IF U32Less(u, SignBit) THEN u[1] * 65536 + u[2]
    ELSE (u[1] - 65536) * 65536 + u[2]

\* 0, 1, 2^31 - 1, 2^31, 2^31 + 1 and 2^32 - 1.
RangeEnds ==
    { <<0, 0>>, <<0, 1>>, <<32767, 65535>>, <<32768, 0>>, <<32768, 1>>,
      <<65535, 65535>> }

\* C1: every line of the text artifact carries, as its signed hash, u - 2^32
\* when the CRC-32 u of its identifier is at least 2^31, and u otherwise.
\* The same is required of the conversion at the ends of both ranges.
C1_SignedHash ==
    /\ (script = "text" /\ pc \in {"writing", "done"}) =>
          \A j \in 1..Len(stationpedia_txt) :
              LET u == unsigned_hash(stationpedia_txt[j].identifier)
              IN  stationpedia_txt[j].signed = Reinterpret(u)
    /\ \A u \in RangeEnds : signed_hash(u) = Reinterpret(u)

\* A finished text artifact with a hash below 2^31 and one at or above it.
C1_Witness ==
    /\ TextDone
    /\ \E j, k \in 1..Len(stationpedia_txt) :
          /\ U32Less(unsigned_hash(stationpedia_txt[j].identifier), SignBit)
          /\ stationpedia_txt[j].signed > 0
          /\ ~U32Less(unsigned_hash(stationpedia_txt[k].identifier), SignBit)
          /\ stationpedia_txt[k].signed < 0

\* C2: a run that ends because the source is absent or unparsable leaves
\* both destination files with the content they had when the run started.
C2_LoaderFailureWritesNothing ==
    (Failed /\ srcStatus # "ok") =>
        /\ stationpedia_txt = old_txt
        /\ device_hashes_rs = old_rs

\* Each script has failed on an unusable source with an earlier output on disk.
C2_Witness ==
    /\ Failed /\ srcStatus # "ok"
    /\ \/ script = "text" /\ old_txt # <<>>
       \/ script = "code" /\ old_rs # <<>>

\* The text artifact holds a line for every key of d and nothing else.
TxtComplete ==
    /\ Len(stationpedia_txt) = Cardinality(DOMAIN d)
    /\ \A k \in DOMAIN d :
          \E j \in 1..Len(stationpedia_txt) : stationpedia_txt[j].identifier = k

\* C3: whenever a run has failed, each destination file is its complete
\* previous content or the complete new content.
C3_AtomicAbort ==
    Failed =>
        /\ stationpedia_txt = old_txt \/ TxtComplete
        /\ device_hashes_rs = old_rs \/ device_hashes_rs = rust_code

\* C4: records without an identifier or with an empty one do not make the
\* run fail, and no emitted entry has a missing or empty identifier.
C4_MissingIdentifierSkipped ==
    /\ srcStatus = "ok" => ~Failed
    /\ (script = "text" /\ pc \in {"writing", "done"}) =>
          \A j \in 1..Len(stationpedia_txt) :
              stationpedia_txt[j].identifier \notin {None, <<>>}
    /\ CodeDone =>
          \A j \in 1..Len(NAME_TO_HASH) : NAME_TO_HASH[j].name # <<>>

\* C5: every entry emitted in either artifact has a non-empty display name.
C5_DisplayNameNonEmpty ==
    /\ TextDone =>
          \A j \in 1..Len(stationpedia_txt) :
              stationpedia_txt[j].display # <<>>
    /\ CodeDone =>
          \A j \in 1..Len(HASH_TO_DISPLAY_NAME) :
              HASH_TO_DISPLAY_NAME[j].text # <<>>

\* C6 as stated: when several identifiers of NAME_TO_HASH share a hash, the
\* display name stored under that hash is the one of the identifier that is
\* last in ascending identifier order.
C6_LastSortedIdentifierWins ==
    CodeDone =>
        \A j \in 1..Len(HASH_TO_DISPLAY_NAME) :
            LET h      == HASH_TO_DISPLAY_NAME[j].hash
                ids    == { n \in DOMAIN device_map : device_map[n][1] = h }
                sorted == SortedStrs(ids)
            IN  Cardinality(ids) >= 2 =>
                    HASH_TO_DISPLAY_NAME[j].text =
                        Escape(device_map[sorted[Len(sorted)]][2])

\* C6 as amended: when accepted records of several identifiers carry the same
\* hash, the display name stored under that hash is the one computed from the
\* last of these records in source order.
C6_LastSourceRecordWins ==
    CodeDone =>
        \A j \in 1..Len(HASH_TO_DISPLAY_NAME) :
            LET h    == HASH_TO_DISPLAY_NAME[j].hash
                last == CHOOSE m \in PagesWith(h) : \A n \in PagesWith(h) : n <= m
            IN  Cardinality({ source[n].PrefabName : n \in PagesWith(h) }) >= 2 =>
                    HASH_TO_DISPLAY_NAME[j].text = Escape(DisplayName(source[last]))

\* Two identifiers share a hash and the record of the one that sorts last
\* comes first in the source.
C6_Witness ==
    /\ CodeDone
    /\ \E m, n \in 1..Len(source) :
          /\ m < n
          /\ Accepted(source[m]) /\ Accepted(source[n])
          /\ source[m].PrefabHash = source[n].PrefabHash
          /\ StrLess(source[n].PrefabName, source[m].PrefabName)
          /\ DisplayName(source[m]) # DisplayName(source[n])

\* C7: the code emitter does not fail on a readable source, and in its
\* output every accepted identifier has exactly one NAME_TO_HASH entry and
\* every hash of an accepted record exactly one HASH_TO_DISPLAY_NAME entry.
C7_ExactlyOnce ==
    (script = "code" /\ srcStatus = "ok") =>
        /\ ~Failed
        /\ pc = "done" =>
              \A m \in 1..Len(source) :
                  Accepted(source[m]) =>
                      /\ Count(NAME_TO_HASH,
                               LAMBDA l : l.name = source[m].PrefabName) = 1
                      /\ Count(HASH_TO_DISPLAY_NAME,
                               LAMBDA l : l.hash = source[m].PrefabHash) = 1

\* A finished code artifact whose source has two identifiers with one hash.
C7_Witness ==
    /\ CodeDone
    /\ \E m, n \in 1..Len(source) :
          /\ Accepted(source[m]) /\ Accepted(source[n])
          /\ source[m].PrefabHash = source[n].PrefabHash
          /\ source[m].PrefabName # source[n].PrefabName
          /\ Len(NAME_TO_HASH) = 2
          /\ Len(HASH_TO_DISPLAY_NAME) = 1

\* NAME_TO_HASH and the text artifact ascend by identifier.
IdentifierOrder ==
    /\ CodeDone =>
          \A j \in 1..(Len(NAME_TO_HASH) - 1) :
              StrLess(NAME_TO_HASH[j].name, NAME_TO_HASH[j + 1].name)
    /\ TextDone =>
          \A j \in 1..(Len(stationpedia_txt) - 1) :
              StrLess(stationpedia_txt[j].identifier,
                      stationpedia_txt[j + 1].identifier)

\* C8 as stated: consecutive entries of HASH_TO_DISPLAY_NAME ascend strictly
\* by the unsigned 32-bit value of their hash (and the identifier-ordered
\* outputs ascend by identifier).
C8_UnsignedAscending ==
    /\ CodeDone =>
          \A j \in 1..(Len(HASH_TO_DISPLAY_NAME) - 1) :
              U32Less(ToU32(HASH_TO_DISPLAY_NAME[j].hash),
                      ToU32(HASH_TO_DISPLAY_NAME[j + 1].hash))
    /\ IdentifierOrder

\* C8 as amended: consecutive entries of HASH_TO_DISPLAY_NAME ascend strictly
\* by their key as a signed integer (and the identifier-ordered outputs
\* ascend by identifier).
C8_SignedKeyAscending ==
    /\ CodeDone =>
          \A j \in 1..(Len(HASH_TO_DISPLAY_NAME) - 1) :
              HASH_TO_DISPLAY_NAME[j].hash < HASH_TO_DISPLAY_NAME[j + 1].hash
    /\ IdentifierOrder

\* A finished code artifact with a negative key followed by a positive one.
C8_Witness ==
    /\ CodeDone
    /\ Len(NAME_TO_HASH) >= 2
    /\ \E j \in 1..(Len(HASH_TO_DISPLAY_NAME) - 1) :
          /\ HASH_TO_DISPLAY_NAME[j].hash < 0
          /\ HASH_TO_DISPLAY_NAME[j + 1].hash > 0

\* C9: a run that completes on the source of the run before it leaves both
\* artifacts exactly as that run left them, whatever they held before.
C9_RerunIdentical ==
    (run >= 2 /\ pc = "done") =>
        /\ stationpedia_txt = old_txt
        /\ device_hashes_rs = old_rs

\* A second run of either script has completed with a non-empty artifact.
C9_Witness ==
    /\ run = 2 /\ pc = "done"
    /\ \/ script = "text" /\ Len(stationpedia_txt) >= 2
       \/ script = "code" /\ Len(HASH_TO_DISPLAY_NAME) >= 2

\* C10: every key of HASH_TO_DISPLAY_NAME is the hash of some identifier of
\* NAME_TO_HASH, and the name stored under it is that of such an identifier.
C10_MapsConsistent ==
    CodeDone =>
        \A j \in 1..Len(HASH_TO_DISPLAY_NAME) :
            \E k \in 1..Len(NAME_TO_HASH) :
                /\ NAME_TO_HASH[k].hash = HASH_TO_DISPLAY_NAME[j].hash
                /\ HASH_TO_DISPLAY_NAME[j].text =
                       Escape(device_map[NAME_TO_HASH[k].name][2])

====
